---- MODULE Spec2Model ----
(***************************************************************************)
(* The notebook chapter03_deep-neural-networks/mlp-gluon.ipynb as a state  *)
(* machine: the cells run top to bottom, then the training loop runs       *)
(* batch by batch.                                                         *)
(*                                                                         *)
(* Arrays are kept as a shape (the full-size shape of the source) and one  *)
(* integer per row (the row's values reduced to a single number in         *)
(* -ValMax..ValMax).  The numeric kernels of the framework (affine map,    *)
(* relu, softmax cross-entropy, gradients, SGD) are integer functions of   *)
(* the same arguments the calls take.  The data sets and the batch size    *)
(* are scaled down together; the widths, the epoch count and the image     *)
(* size are those of the source.                                           *)
(***************************************************************************)
EXTENDS Integers, Sequences, FiniteSets, TLC

----------------------------------------------------------------------------
(* Sizes.  batch_size, num_examples and TestSetSize stand for 64, 60000    *)
(* and 10000 (lines 86, 89, 94); the others are the source's numbers.      *)

batch_size == 2
num_examples == 5
TestSetSize == 3
num_outputs == 10
num_hidden == 64
epochs == 10

(* Number of seeds the framework's generator may start from, number of     *)
(* entropy values the numpy generator may start from, the generators'      *)
(* modulus, and the largest magnitude of a reduced array value.            *)
NumSeeds == 2
NumEntropy == 3
RngMod == 16
ValMax == 4

(* How often the notebook is run from the top in SpecRerun. *)
MaxRuns == 2

(* Ranges of the layer-equivalence check: weights in -EqWMax..EqWMax,      *)
(* biases in 0..EqBMax, input rows (pixel intensities) in 0..EqXMax,       *)
(* batches of 1..EqMaxBatch rows.                                          *)
EqWMax == 1
EqBMax == 1
EqXMax == 1
EqMaxBatch == 2

----------------------------------------------------------------------------
(* Arithmetic helpers *)

Min(a, b) == IF a < b THEN a ELSE b

Max(a, b) == IF a > b THEN a ELSE b

Abs(a) == IF a < 0 THEN -a ELSE a

RECURSIVE GCD(_, _)
GCD(a, b) == IF b = 0 THEN a ELSE GCD(b, a % b)

RECURSIVE SumSeq(_)
SumSeq(s) == IF s = <<>> THEN 0 ELSE Head(s) + SumSeq(Tail(s))

RECURSIVE Product(_)
Product(s) == IF s = <<>> THEN 1 ELSE Head(s) * Product(Tail(s))

(* A reduced array value, kept in -ValMax..ValMax. *)
Wrap(v) == ((v + ValMax) % (2 * ValMax + 1)) - ValMax

(* Python's true division a / b of two non-negative numbers, as the        *)
(* fraction in lowest terms; <<0, 0>> is float('nan').                     *)
NaN == <<0, 0>>

Div(a, b) == IF b = 0 THEN NaN ELSE <<a \div GCD(a, b), b \div GCD(a, b)>>

----------------------------------------------------------------------------
(* Random number generators.  The framework's generator (mx.random) and    *)
(* numpy's are separate; each is a linear congruential sequence.           *)

RngNext(s) == (5 * s + 3) % RngMod

(* mx.init.Normal: one draw per weight array, zero mean. *)
NormalDraw(s) == Wrap(s)

Swap(x, a, b) == [x EXCEPT ![a] = x[b], ![b] = x[a]]

(* np.random.shuffle: Fisher-Yates from the last position down. *)
RECURSIVE Shuffle(_, _, _)
Shuffle(x, k, s) ==
  IF k < 2 THEN [perm |-> x, rng |-> s]
  ELSE Shuffle(Swap(x, k, (s % k) + 1), k - 1, RngNext(s))

----------------------------------------------------------------------------
(* Data: MNIST and the two DataLoaders (lines 90-95) *)

(* transform(data, label): pixels divided by 255, label as float. *)
transform(d, l) == [x |-> d \div 255, y |-> l]

(* A raw image reduced to one pixel value, 0 or 255. *)
RawImage(k) == IF k % 2 = 1 THEN 255 ELSE 0

(* MNIST(train=True): num_examples samples, of shape (28, 28, 1) each,     *)
(* with a label in 0..9.                                                   *)
TrainSet == [k \in 1..num_examples |-> transform(RawImage(k), (3 * k) % 10)]

(* MNIST(train=False) *)
TestSet == [k \in 1..TestSetSize |-> transform(RawImage(k + 1), (7 * k + 1) % 10)]

train_data == [name |-> "train", dataset |-> TrainSet,
               batch_size |-> batch_size, shuffle |-> TRUE]

test_data == [name |-> "test", dataset |-> TestSet,
              batch_size |-> batch_size, shuffle |-> FALSE]

Identity(n) == [k \in 1..n |-> k]

(* iter(DataLoader): the sampler fixes the order of the indices; a         *)
(* shuffling sampler draws it from numpy's generator.                      *)
DataIter(loader, s) ==
  LET n == Len(loader.dataset) IN
  IF loader.shuffle
    THEN LET r == Shuffle(Identity(n), n, s)
         IN [loader |-> loader, order |-> r.perm, pos |-> 0, rng |-> r.rng]
    ELSE [loader |-> loader, order |-> Identity(n), pos |-> 0, rng |-> s]

(* The batch sampler keeps a short last batch (last_batch='keep'). *)
NumBatches(it) ==
  (Len(it.order) + it.loader.batch_size - 1) \div it.loader.batch_size

HasNext(it) == it.pos < NumBatches(it)

BatchIndices(it) ==
  SubSeq(it.order, it.pos * it.loader.batch_size + 1,
         Min((it.pos + 1) * it.loader.batch_size, Len(it.order)))

(* One batch: the images stacked to (n, 28, 28, 1), the labels to (n,). *)
BatchData(it) ==
  LET ix == BatchIndices(it) IN
  [shape |-> <<Len(ix), 28, 28, 1>>,
   rows |-> [k \in 1..Len(ix) |-> it.loader.dataset[ix[k]].x]]

BatchLabel(it) ==
  LET ix == BatchIndices(it) IN
  [shape |-> <<Len(ix)>>,
   rows |-> [k \in 1..Len(ix) |-> it.loader.dataset[ix[k]].y]]

(* data.reshape((-1, 784)) *)
Reshape784(t) == [shape |-> <<Product(t.shape) \div 784, 784>>, rows |-> t.rows]

NoArray == [shape |-> <<>>, rows |-> <<>>]

----------------------------------------------------------------------------
(* Layers and networks *)

(* gluon.nn.Dense(units, activation): the input width is not given, so it  *)
(* is 0 (unknown) until the first call infers it.                          *)
DenseLayer(units, activation) ==
  [units |-> units, in_units |-> 0, activation |-> activation]

(* The record a relu leaves in the list of operations a forward applies. *)
ReluOp == [op |-> "relu", units |-> 0]

relu(t) == [shape |-> t.shape, rows |-> [k \in 1..Len(t.rows) |-> Max(0, t.rows[k])]]

Activate(activation, t) == IF activation = "relu" THEN relu(t) ELSE t

(* A Dense layer accepts a 2-d input whose width is its input width, once  *)
(* that is known.                                                          *)
DenseAccepts(layer, x) ==
  /\ Len(x.shape) = 2
  /\ layer.in_units \in {0, x.shape[2]}

(* Variant of DenseCall that flattens the whole batch into one row. *)
DenseCallFlat(layer, p, x) ==
  [out |-> Activate(layer.activation,
             [shape |-> <<1, layer.units>>,
              rows |-> [k \in 1..Len(x.rows) |-> Wrap(p.weight * x.rows[k] + p.bias)]]),
   layer |-> [layer EXCEPT !.in_units = x.shape[2]],
   ok |-> DenseAccepts(layer, x),
   ops |-> <<[op |-> "affine", units |-> layer.units]>>
           \o (IF layer.activation = "relu" THEN <<ReluOp>> ELSE <<>>)]

(* Dense.__call__: act(x W^T + b), of shape (batch, units); the call also  *)
(* fixes the layer's input width.                                          *)
DenseCall(layer, p, x) ==
  [out |-> Activate(layer.activation,
             [shape |-> <<x.shape[1], layer.units>>,
              rows |-> [k \in 1..Len(x.rows) |-> Wrap(p.weight * x.rows[k] + p.bias)]]),
   layer |-> [layer EXCEPT !.in_units = x.shape[2]],
   ok |-> DenseAccepts(layer, x),
   ops |-> <<[op |-> "affine", units |-> layer.units]>>
           \o (IF layer.activation = "relu" THEN <<ReluOp>> ELSE <<>>)]

(* Variant of MLP_forward that leaves out the second relu. *)
MLP_forward_NoRelu(L, P, x) ==
  LET c0 == DenseCall(L[1], P[1], x)
      c1 == DenseCall(L[2], P[2], relu(c0.out))
      c2 == DenseCall(L[3], P[3], c1.out)
  IN [out |-> c2.out,
      layers |-> <<c0.layer, c1.layer, c2.layer>>,
      ok |-> c0.ok /\ c1.ok /\ c2.ok,
      ops |-> c0.ops \o <<ReluOp>> \o c1.ops \o c2.ops,
      prints |-> <<>>]

(* First MLP class (lines 120-132): three Dense layers without activation, *)
(* relu applied in forward.                                                *)
MLP_init == [kind |-> "MLP",
             layers |-> <<DenseLayer(64, "none"), DenseLayer(64, "none"),
                          DenseLayer(10, "none")>>]

MLP_forward(L, P, x) ==
  LET c0 == DenseCall(L[1], P[1], x)
      c1 == DenseCall(L[2], P[2], relu(c0.out))
      c2 == DenseCall(L[3], P[3], relu(c1.out))
  IN [out |-> c2.out,
      layers |-> <<c0.layer, c1.layer, c2.layer>>,
      ok |-> c0.ok /\ c1.ok /\ c2.ok,
      ops |-> c0.ops \o <<ReluOp>> \o c1.ops \o <<ReluOp>> \o c2.ops,
      prints |-> <<>>]

(* Second MLP class (lines 183-198): relu given to the Dense layers, and   *)
(* forward prints each layer's result.                                     *)
MLP2_init == [kind |-> "MLP2",
              layers |-> <<DenseLayer(64, "relu"), DenseLayer(64, "relu"),
                           DenseLayer(10, "none")>>]

MLP2_forward(L, P, x) ==
  LET c0 == DenseCall(L[1], P[1], x)
      c1 == DenseCall(L[2], P[2], c0.out)
      c2 == DenseCall(L[3], P[3], c1.out)
  IN [out |-> c2.out,
      layers |-> <<c0.layer, c1.layer, c2.layer>>,
      ok |-> c0.ok /\ c1.ok /\ c2.ok,
      ops |-> c0.ops \o c1.ops \o c2.ops,
      prints |-> <<[kind |-> "Hidden Representation 1", value |-> c0.out],
                   [kind |-> "Hidden Representation 2", value |-> c1.out],
                   [kind |-> "Network output", value |-> c2.out]>>]

(* gluon.nn.Sequential with the three layers added (lines 230-235). *)
Sequential_init == [kind |-> "Sequential",
                    layers |-> <<DenseLayer(num_hidden, "relu"),
                                 DenseLayer(num_hidden, "relu"),
                                 DenseLayer(num_outputs, "none")>>]

(* Sequential.forward: each child in the order added, fed the previous     *)
(* child's output.                                                         *)
RECURSIVE Sequential_forward_from(_, _, _, _, _)
Sequential_forward_from(L, P, x, k, acc) ==
  IF k > Len(L)
    THEN [out |-> x, layers |-> acc.layers, ok |-> acc.ok, ops |-> acc.ops,
          prints |-> <<>>]
    ELSE LET c == DenseCall(L[k], P[k], x)
         IN Sequential_forward_from(L, P, c.out, k + 1,
              [layers |-> Append(acc.layers, c.layer), ok |-> acc.ok /\ c.ok,
               ops |-> acc.ops \o c.ops])

Sequential_forward(L, P, x) ==
  Sequential_forward_from(L, P, x, 1, [layers |-> <<>>, ok |-> TRUE, ops |-> <<>>])

(* net(x): Block.__call__ runs the forward of the block net is bound to. *)
Forward(n, P, x) ==
  CASE n.kind = "MLP" -> MLP_forward(n.layers, P, x)
    [] n.kind = "MLP2" -> MLP2_forward(n.layers, P, x)
    [] OTHER -> Sequential_forward(n.layers, P, x)

(* collect_params().initialize(mx.init.Normal(sigma)): each weight drawn   *)
(* from the framework's generator, each bias zero (Dense's own bias        *)
(* initializer).                                                           *)
RECURSIVE InitializeFrom(_, _, _)
InitializeFrom(n, s, acc) ==
  IF n = 0 THEN [params |-> acc, rng |-> s]
  ELSE InitializeFrom(n - 1, RngNext(s),
                      Append(acc, [weight |-> NormalDraw(s), bias |-> 0]))

Initialize(n, s) == InitializeFrom(Len(n.layers), s, <<>>)

NoNet == [kind |-> "none", layers |-> <<>>]

----------------------------------------------------------------------------
(* Loss, gradients, optimizer, metric *)

(* gluon.loss.SoftmaxCrossEntropyLoss (lines 267, 333): one loss per       *)
(* sample, never negative.                                                 *)
softmax_cross_entropy(out, lab) ==
  [shape |-> <<out.shape[1]>>,
   rows |-> [k \in 1..Len(out.rows) |-> Abs(out.rows[k] - lab.rows[k])]]

(* loss.backward(): the gradient of the summed batch loss with respect to  *)
(* every weight and bias.                                                  *)
Backward(P, x, out, lab) ==
  LET n == Len(out.rows)
      gw == SumSeq([k \in 1..n |-> (out.rows[k] - lab.rows[k]) * x.rows[k]])
      gb == SumSeq([k \in 1..n |-> out.rows[k] - lab.rows[k]])
  IN [k \in 1..Len(P) |-> [weight |-> Wrap(gw), bias |-> Wrap(gb)]]

(* trainer.step(n) with plain sgd: every parameter moves against its       *)
(* gradient rescaled by 1/n.                                               *)
SgdStep(P, g, n) ==
  [k \in 1..Len(P) |-> [weight |-> Wrap(P[k].weight - (g[k].weight \div n)),
                        bias |-> Wrap(P[k].bias - (g[k].bias \div n))]]

(* Variant of StepBatchSize that passes the nominal batch size. *)
StepBatchSizeNominal(x) == batch_size

(* The argument of trainer.step on line 335. *)
StepBatchSize(x) == x.shape[1]

(* nd.argmax(output, axis=1): the class with the largest score. *)
argmax(out) ==
  [shape |-> <<out.shape[1]>>,
   rows |-> [k \in 1..Len(out.rows) |-> out.rows[k] % out.shape[2]]]

(* Variant of AccUpdate that counts one instance per batch. *)
AccUpdatePerBatch(acc, preds, labels) ==
  [sum_metric |-> acc.sum_metric
                  + Cardinality({k \in 1..Len(preds.rows) : preds.rows[k] = labels.rows[k]}),
   num_inst |-> acc.num_inst + 1]

(* mx.metric.Accuracy: update adds the matches and the count; get divides. *)
Accuracy == [sum_metric |-> 0, num_inst |-> 0]

AccUpdate(acc, preds, labels) ==
  [sum_metric |-> acc.sum_metric
                  + Cardinality({k \in 1..Len(preds.rows) : preds.rows[k] = labels.rows[k]}),
   num_inst |-> acc.num_inst + Len(preds.rows)]

AccGet(acc) == Div(acc.sum_metric, acc.num_inst)

(* Variant of ReportLine with the two accuracies exchanged. *)
ReportLineSwapped(ep, cum, train_acc, test_acc) ==
  [kind |-> "Epoch", Epoch |-> ep, Loss |-> Div(cum, num_examples),
   Train_acc |-> test_acc, Test_acc |-> train_acc]

(* The line printed on 341-342. *)
ReportLine(ep, cum, train_acc, test_acc) ==
  [kind |-> "Epoch", Epoch |-> ep, Loss |-> Div(cum, num_examples),
   Train_acc |-> train_acc, Test_acc |-> test_acc]

(* Variant of AfterException: the exception is swallowed and the loop     *)
(* goes on with the next batch.                                            *)
AfterExceptionContinue(at) == "for_batch"

(* An exception nothing catches ends the cell's execution. *)
AfterException(at) == "halted"

----------------------------------------------------------------------------
(* State *)

VARIABLES
  pc,               \* the statement to run next
  seed,             \* the seed the framework's generator starts from
  mx_rng,           \* state of the framework's generator
  np_rng,           \* state of numpy's generator
  net,              \* the block bound to `net`
  params,           \* net's weights and biases, <<>> before initialize
  cell_out,         \* the value a demonstration cell displays
  rescale,          \* the batch size the trainer last rescaled by
  e,                \* epoch index, -1 before the loop
  it,               \* iterator over train_data in the training loop
  i,                \* batch index of enumerate
  data, label, output, loss,
  grad,             \* gradient buffers of the parameters
  cumulative_loss,
  ev,               \* frame of the evaluate_accuracy call in progress
  test_accuracy, train_accuracy,
  stdout,           \* lines printed so far
  hist,             \* history of the run, read by the properties only
  eq_pc, eq_params, eq_x, eq_out   \* the layer-equivalence check

progvars == <<pc, mx_rng, np_rng, net, params, cell_out, rescale, e, it, i,
              data, label, output, loss, grad, cumulative_loss, ev,
              test_accuracy, train_accuracy, stdout>>

eqvars == <<eq_pc, eq_params, eq_x, eq_out>>

vars == <<progvars, seed, hist, eqvars>>

NoIter == [loader |-> test_data, order |-> <<>>, pos |-> 0, rng |-> 0]

NoEval == [it |-> NoIter, acc |-> Accuracy, data |-> NoArray, output |-> NoArray]

NoHist ==
  [trace |-> <<>>,        \* steps taken for the current batch
   batch |-> <<>>,        \* sample indices of the current batch
   trained |-> <<>>,      \* indices whose batch got an optimizer step, this epoch
   stepargs |-> <<>>,     \* <<step argument, batch length>> of each step, this epoch
   losses |-> <<>>,       \* per-sample losses computed, this epoch
   seen |-> <<>>,         \* indices visited by the evaluation in progress
   visits |-> [test |-> <<>>, train |-> <<>>],   \* indices each finished evaluation visited
   used |-> {},           \* parameter values the evaluations read, this epoch
   stepped |-> <<>>,      \* parameters left by the last optimizer step
   truth |-> [test |-> NaN, train |-> NaN],      \* accuracy per data set evaluated
   nsteps |-> 0, nfetch |-> 0,
   failed |-> [on |-> FALSE, at |-> "", e |-> 0, nsteps |-> 0, nfetch |-> 0, lines |-> 0],
   runs |-> 1, initSeen |-> {}, entropy |-> {}]

Reports == SelectSeq(stdout, LAMBDA l : l.kind = "Epoch")

(* The notebook's names before any cell has run. *)
ProgStart(first) ==
  /\ pc = first
  /\ net = NoNet
  /\ params = <<>>
  /\ cell_out = NoArray
  /\ rescale = 1
  /\ e = -1
  /\ it = NoIter
  /\ i = 0
  /\ data = NoArray /\ label = NoArray /\ output = NoArray /\ loss = NoArray
  /\ grad = <<>>
  /\ cumulative_loss = 0
  /\ ev = NoEval
  /\ test_accuracy = NaN /\ train_accuracy = NaN
  /\ stdout = <<>>

(* A fresh kernel: the framework's generator starts from the seed, numpy's *)
(* from the system's entropy.                                              *)
ProgInit ==
  /\ ProgStart("instantiate_mlp")
  /\ mx_rng = seed
  /\ np_rng \in 0..(NumEntropy - 1)

EqOff ==
  /\ eq_pc = "off"
  /\ eq_params = <<>>
  /\ eq_x = NoArray
  /\ eq_out = <<>>

Init ==
  /\ seed \in 0..(NumSeeds - 1)
  /\ ProgInit
  /\ hist = [NoHist EXCEPT !.entropy = {np_rng}]
  /\ EqOff

----------------------------------------------------------------------------
(* The cells before the training loop *)

(* net = MLP(); net.collect_params().initialize(Normal(.01)) (149-150) *)
InstantiateMLP ==
  /\ pc = "instantiate_mlp"
  /\ net' = MLP_init
  /\ params' = Initialize(MLP_init, mx_rng).params
  /\ mx_rng' = Initialize(MLP_init, mx_rng).rng
  /\ pc' = "demo_forward"
  /\ UNCHANGED <<np_rng, cell_out, rescale, e, it, i, data, label, output, loss,
                 grad, cumulative_loss, ev, test_accuracy, train_accuracy, stdout>>
  /\ UNCHANGED <<seed, hist, eqvars>>

(* data = nd.ones((1,784)); net(data) (166-167) *)
DemoForward ==
  LET ones == [shape |-> <<1, 784>>, rows |-> <<1>>]
      r == Forward(net, params, ones)
  IN /\ pc = "demo_forward"
     /\ r.ok
     /\ data' = ones
     /\ net' = [net EXCEPT !.layers = r.layers]
     /\ cell_out' = r.out
     /\ stdout' = stdout \o r.prints
     /\ pc' = "mlp2_cell"
     /\ UNCHANGED <<mx_rng, np_rng, params, rescale, e, it, i, label, output, loss,
                    grad, cumulative_loss, ev, test_accuracy, train_accuracy>>
     /\ UNCHANGED <<seed, hist, eqvars>>

(* The second class, instantiated, initialized and called (183-202) *)
MLP2Cell ==
  LET ini == Initialize(MLP2_init, mx_rng)
      r == Forward(MLP2_init, ini.params, data)
  IN /\ pc = "mlp2_cell"
     /\ r.ok
     /\ net' = [MLP2_init EXCEPT !.layers = r.layers]
     /\ params' = ini.params
     /\ mx_rng' = ini.rng
     /\ cell_out' = r.out
     /\ stdout' = stdout \o r.prints
     /\ pc' = "sequential"
     /\ UNCHANGED <<np_rng, rescale, e, it, i, data, label, output, loss,
                    grad, cumulative_loss, ev, test_accuracy, train_accuracy>>
     /\ UNCHANGED <<seed, hist, eqvars>>

(* net = gluon.nn.Sequential() with its three layers (230-235); the new    *)
(* block's parameters are not initialized yet.                             *)
BuildSequential ==
  /\ pc = "sequential"
  /\ net' = Sequential_init
  /\ params' = <<>>
  /\ pc' = "initialize"
  /\ UNCHANGED <<mx_rng, np_rng, cell_out, rescale, e, it, i, data, label, output,
                 loss, grad, cumulative_loss, ev, test_accuracy, train_accuracy, stdout>>
  /\ UNCHANGED <<seed, hist, eqvars>>

(* Variant of InitSource: the initializer draws from numpy's generator. *)
InitSourceNumpy == np_rng

(* The generator state the initializer on line 251 draws from. *)
InitSource == mx_rng

(* net.collect_params().initialize(Normal(.1)) (251).  gluon allocates the *)
(* arrays when the first call fixes the input width; no other draw from    *)
(* the framework's generator comes between, so the values are the ones     *)
(* determined here.                                                        *)
InitializeParams ==
  LET ini == Initialize(net, InitSource)
  IN /\ pc = "initialize"
     /\ params' = ini.params
     /\ mx_rng' = ini.rng
     /\ hist' = [hist EXCEPT !.initSeen = @ \cup {ini.params}]
     /\ pc' = "trainer"
     /\ UNCHANGED <<np_rng, net, cell_out, rescale, e, it, i, data, label, output,
                    loss, grad, cumulative_loss, ev, test_accuracy, train_accuracy,
                    stdout>>
     /\ UNCHANGED <<seed, eqvars>>

(* softmax_cross_entropy = ...; trainer = gluon.Trainer(..., 'sgd', ...)   *)
(* (267, 283): the trainer starts with a rescale of 1.                     *)
CreateTrainer ==
  /\ pc = "trainer"
  /\ rescale' = 1
  /\ pc' = "for_epoch"
  /\ UNCHANGED <<mx_rng, np_rng, net, params, cell_out, e, it, i, data, label,
                 output, loss, grad, cumulative_loss, ev, test_accuracy,
                 train_accuracy, stdout>>
  /\ UNCHANGED <<seed, hist, eqvars>>

----------------------------------------------------------------------------
(* The training loop (323-342) *)

(* Variant of EpochBegin that keeps the loss accumulated so far. *)
EpochBeginNoReset ==
  LET t == DataIter(train_data, np_rng)
  IN /\ pc = "for_epoch"
     /\ e + 1 < epochs
     /\ e' = e + 1
     /\ it' = t
     /\ np_rng' = t.rng
     /\ hist' = [hist EXCEPT !.trace = <<>>, !.batch = <<>>, !.trained = <<>>,
                             !.stepargs = <<>>, !.losses = <<>>, !.seen = <<>>,
                             !.visits = NoHist.visits, !.used = {},
                             !.truth = NoHist.truth]
     /\ pc' = "for_batch"
     /\ UNCHANGED <<mx_rng, net, params, cell_out, rescale, i, data, label, output,
                    loss, grad, ev, test_accuracy, train_accuracy, stdout,
                    cumulative_loss>>
     /\ UNCHANGED <<seed, eqvars>>

(* for e in range(epochs): cumulative_loss = 0; enumerate(train_data)      *)
(* (326-328).  Creating the iterator shuffles the indices.                 *)
EpochBegin ==
  LET t == DataIter(train_data, np_rng)
  IN /\ pc = "for_epoch"
     /\ e + 1 < epochs
     /\ e' = e + 1
     /\ cumulative_loss' = 0
     /\ it' = t
     /\ np_rng' = t.rng
     /\ hist' = [hist EXCEPT !.trace = <<>>, !.batch = <<>>, !.trained = <<>>,
                             !.stepargs = <<>>, !.losses = <<>>, !.seen = <<>>,
                             !.visits = NoHist.visits, !.used = {},
                             !.truth = NoHist.truth]
     /\ pc' = "for_batch"
     /\ UNCHANGED <<mx_rng, net, params, cell_out, rescale, i, data, label, output,
                    loss, grad, ev, test_accuracy, train_accuracy, stdout>>
     /\ UNCHANGED <<seed, eqvars>>

(* range(epochs) is exhausted: the cell ends. *)
LoopExit ==
  /\ pc = "for_epoch"
  /\ ~(e + 1 < epochs)
  /\ pc' = "done"
  /\ UNCHANGED <<mx_rng, np_rng, net, params, cell_out, rescale, e, it, i, data,
                 label, output, loss, grad, cumulative_loss, ev, test_accuracy,
                 train_accuracy, stdout>>
  /\ UNCHANGED <<seed, hist, eqvars>>

(* The next (data, label) of train_data, moved to the model's context and  *)
(* reshaped (328-330).                                                     *)
NextBatch ==
  /\ pc = "for_batch"
  /\ HasNext(it)
  /\ i' = it.pos
  /\ data' = Reshape784(BatchData(it))
  /\ label' = BatchLabel(it)
  /\ it' = [it EXCEPT !.pos = @ + 1]
  /\ hist' = [hist EXCEPT !.trace = <<>>, !.batch = BatchIndices(it),
                          !.nfetch = @ + 1]
  /\ pc' = "forward"
  /\ UNCHANGED <<mx_rng, np_rng, net, params, cell_out, rescale, e, output, loss,
                 grad, cumulative_loss, ev, test_accuracy, train_accuracy, stdout>>
  /\ UNCHANGED <<seed, eqvars>>

(* train_data is exhausted: on to line 339. *)
BatchesDone ==
  /\ pc = "for_batch"
  /\ ~HasNext(it)
  /\ pc' = "eval_test"
  /\ UNCHANGED <<mx_rng, np_rng, net, params, cell_out, rescale, e, it, i, data,
                 label, output, loss, grad, cumulative_loss, ev, test_accuracy,
                 train_accuracy, stdout>>
  /\ UNCHANGED <<seed, hist, eqvars>>

(* with autograd.record(): output = net(data) (331-332) *)
ForwardPass ==
  LET r == Forward(net, params, data)
  IN /\ pc = "forward"
     /\ r.ok
     /\ output' = r.out
     /\ net' = [net EXCEPT !.layers = r.layers]
     /\ stdout' = stdout \o r.prints
     /\ hist' = [hist EXCEPT !.trace = Append(@, "forward")]
     /\ pc' = "loss"
     /\ UNCHANGED <<mx_rng, np_rng, params, cell_out, rescale, e, it, i, data, label,
                    loss, grad, cumulative_loss, ev, test_accuracy, train_accuracy>>
     /\ UNCHANGED <<seed, eqvars>>

(* loss = softmax_cross_entropy(output, label) (333) *)
ComputeLoss ==
  /\ pc = "loss"
  /\ loss' = softmax_cross_entropy(output, label)
  /\ hist' = [hist EXCEPT !.trace = Append(@, "loss"),
                          !.losses = @ \o softmax_cross_entropy(output, label).rows]
  /\ pc' = "backward"
  /\ UNCHANGED <<mx_rng, np_rng, net, params, cell_out, rescale, e, it, i, data,
                 label, output, grad, cumulative_loss, ev, test_accuracy,
                 train_accuracy, stdout>>
  /\ UNCHANGED <<seed, eqvars>>

(* loss.backward() (334) *)
BackwardPass ==
  /\ pc = "backward"
  /\ grad' = Backward(params, data, output, label)
  /\ hist' = [hist EXCEPT !.trace = Append(@, "backward")]
  /\ pc' = "step"
  /\ UNCHANGED <<mx_rng, np_rng, net, params, cell_out, rescale, e, it, i, data,
                 label, output, loss, cumulative_loss, ev, test_accuracy,
                 train_accuracy, stdout>>
  /\ UNCHANGED <<seed, eqvars>>

(* trainer.step(data.shape[0]) (335) *)
OptimizerStep ==
  LET n == StepBatchSize(data)
      P == SgdStep(params, grad, n)
  IN /\ pc = "step"
     /\ rescale' = n
     /\ params' = P
     /\ hist' = [hist EXCEPT !.trace = Append(@, "step"),
                             !.trained = @ \o hist.batch,
                             !.stepargs = Append(@, <<n, Len(hist.batch)>>),
                             !.stepped = P,
                             !.nsteps = @ + 1]
     /\ pc' = "accumulate"
     /\ UNCHANGED <<mx_rng, np_rng, net, cell_out, e, it, i, data, label, output,
                    loss, grad, cumulative_loss, ev, test_accuracy, train_accuracy,
                    stdout>>
     /\ UNCHANGED <<seed, eqvars>>

(* cumulative_loss += nd.sum(loss).asscalar() (336) *)
Accumulate ==
  /\ pc = "accumulate"
  /\ cumulative_loss' = cumulative_loss + SumSeq(loss.rows)
  /\ pc' = "for_batch"
  /\ UNCHANGED <<mx_rng, np_rng, net, params, cell_out, rescale, e, it, i, data,
                 label, output, loss, grad, ev, test_accuracy, train_accuracy, stdout>>
  /\ UNCHANGED <<seed, hist, eqvars>>

----------------------------------------------------------------------------
(* evaluate_accuracy (299-307) and its two calls (339-340) *)

(* acc = mx.metric.Accuracy(); enumerate(data_iterator) (300-301) *)
EvaluateBegin(loader, s) ==
  [it |-> DataIter(loader, s), acc |-> Accuracy, data |-> NoArray, output |-> NoArray]

(* Variant of EvalParams: the evaluation runs a freshly initialized copy. *)
EvalParamsFresh == Initialize(net, mx_rng).params

(* The parameters the forward pass of an evaluation finds in net. *)
EvalParams == params

(* Variant of EvaluateBatch that also applies the pending gradients. *)
EvaluateBatchTraining(fr, P) ==
  LET d == Reshape784(BatchData(fr.it))
      r == Forward(net, P, d)
  IN [it |-> [fr.it EXCEPT !.pos = @ + 1],
      acc |-> AccUpdate(fr.acc, argmax(r.out), BatchLabel(fr.it)),
      data |-> d, output |-> r.out,
      layers |-> r.layers, ok |-> r.ok, prints |-> r.prints,
      params |-> SgdStep(P, grad, 1)]

(* One pass of the loop body (302-306): the batch reshaped, the net        *)
(* called, the predictions compared with the labels.                       *)
EvaluateBatch(fr, P) ==
  LET d == Reshape784(BatchData(fr.it))
      r == Forward(net, P, d)
  IN [it |-> [fr.it EXCEPT !.pos = @ + 1],
      acc |-> AccUpdate(fr.acc, argmax(r.out), BatchLabel(fr.it)),
      data |-> d, output |-> r.out,
      layers |-> r.layers, ok |-> r.ok, prints |-> r.prints, params |-> P]

(* test_accuracy = evaluate_accuracy(test_data, net): the call (339) *)
CallEvalTest ==
  LET fr == EvaluateBegin(test_data, np_rng)
  IN /\ pc = "eval_test"
     /\ ev' = fr
     /\ np_rng' = fr.it.rng
     /\ hist' = [hist EXCEPT !.seen = <<>>]
     /\ pc' = "eval_loop_test"
     /\ UNCHANGED <<mx_rng, net, params, cell_out, rescale, e, it, i, data, label,
                    output, loss, grad, cumulative_loss, test_accuracy,
                    train_accuracy, stdout>>
     /\ UNCHANGED <<seed, eqvars>>

(* train_accuracy = evaluate_accuracy(train_data, net): the call (340) *)
CallEvalTrain ==
  LET fr == EvaluateBegin(train_data, np_rng)
  IN /\ pc = "eval_train"
     /\ ev' = fr
     /\ np_rng' = fr.it.rng
     /\ hist' = [hist EXCEPT !.seen = <<>>]
     /\ pc' = "eval_loop_train"
     /\ UNCHANGED <<mx_rng, net, params, cell_out, rescale, e, it, i, data, label,
                    output, loss, grad, cumulative_loss, test_accuracy,
                    train_accuracy, stdout>>
     /\ UNCHANGED <<seed, eqvars>>

(* The loop body of evaluate_accuracy; data, label and output are the      *)
(* function's own locals.                                                  *)
EvalStep ==
  LET r == EvaluateBatch(ev, EvalParams)
  IN /\ pc \in {"eval_loop_test", "eval_loop_train"}
     /\ HasNext(ev.it)
     /\ r.ok
     /\ ev' = [it |-> r.it, acc |-> r.acc, data |-> r.data, output |-> r.output]
     /\ net' = [net EXCEPT !.layers = r.layers]
     /\ params' = r.params
     /\ stdout' = stdout \o r.prints
     /\ hist' = [hist EXCEPT !.seen = @ \o BatchIndices(ev.it),
                             !.used = @ \cup {EvalParams}]
     /\ UNCHANGED <<pc, mx_rng, np_rng, cell_out, rescale, e, it, i, data, label,
                    output, loss, grad, cumulative_loss, test_accuracy,
                    train_accuracy>>
     /\ UNCHANGED <<seed, eqvars>>

(* return acc.get()[1], assigned to test_accuracy (307, 339) *)
ReturnTestAccuracy ==
  /\ pc = "eval_loop_test"
  /\ ~HasNext(ev.it)
  /\ test_accuracy' = AccGet(ev.acc)
  /\ hist' = [hist EXCEPT !.truth[ev.it.loader.name] = AccGet(ev.acc),
                          !.visits[ev.it.loader.name] = hist.seen]
  /\ pc' = "eval_train"
  /\ UNCHANGED <<mx_rng, np_rng, net, params, cell_out, rescale, e, it, i, data,
                 label, output, loss, grad, cumulative_loss, ev, train_accuracy,
                 stdout>>
  /\ UNCHANGED <<seed, eqvars>>

(* return acc.get()[1], assigned to train_accuracy (307, 340) *)
ReturnTrainAccuracy ==
  /\ pc = "eval_loop_train"
  /\ ~HasNext(ev.it)
  /\ train_accuracy' = AccGet(ev.acc)
  /\ hist' = [hist EXCEPT !.truth[ev.it.loader.name] = AccGet(ev.acc),
                          !.visits[ev.it.loader.name] = hist.seen]
  /\ pc' = "print"
  /\ UNCHANGED <<mx_rng, np_rng, net, params, cell_out, rescale, e, it, i, data,
                 label, output, loss, grad, cumulative_loss, ev, test_accuracy,
                 stdout>>
  /\ UNCHANGED <<seed, eqvars>>

(* print("Epoch %s. Loss: %s, Train_acc %s, Test_acc %s" % ...) (341-342) *)
PrintReport ==
  /\ pc = "print"
  /\ stdout' = Append(stdout,
                 ReportLine(e, cumulative_loss, train_accuracy, test_accuracy))
  /\ pc' = "for_epoch"
  /\ UNCHANGED <<mx_rng, np_rng, net, params, cell_out, rescale, e, it, i, data,
                 label, output, loss, grad, cumulative_loss, ev, test_accuracy,
                 train_accuracy>>
  /\ UNCHANGED <<seed, hist, eqvars>>

Next ==
  \/ InstantiateMLP \/ DemoForward \/ MLP2Cell \/ BuildSequential
  \/ InitializeParams \/ CreateTrainer
  \/ EpochBegin \/ LoopExit \/ NextBatch \/ BatchesDone
  \/ ForwardPass \/ ComputeLoss \/ BackwardPass \/ OptimizerStep \/ Accumulate
  \/ CallEvalTest \/ CallEvalTrain \/ EvalStep
  \/ ReturnTestAccuracy \/ ReturnTrainAccuracy \/ PrintReport

Spec == Init /\ [][Next]_vars

----------------------------------------------------------------------------
(* Failures: any statement of a batch or of an evaluation may raise.       *)

FailPoints == {"for_batch", "forward", "loss", "backward", "step", "accumulate",
               "eval_test", "eval_train", "eval_loop_test", "eval_loop_train"}

RaiseException ==
  /\ pc \in FailPoints
  /\ ~hist.failed.on
  /\ pc' = AfterException(pc)
  /\ hist' = [hist EXCEPT !.failed = [on |-> TRUE, at |-> pc, e |-> e, nsteps |-> hist.nsteps,
                                      nfetch |-> hist.nfetch, lines |-> Len(Reports)]]
  /\ UNCHANGED <<mx_rng, np_rng, net, params, cell_out, rescale, e, it, i, data,
                 label, output, loss, grad, cumulative_loss, ev, test_accuracy,
                 train_accuracy, stdout>>
  /\ UNCHANGED <<seed, eqvars>>

NextFail == Next \/ RaiseException

SpecFail == Init /\ [][NextFail]_vars

----------------------------------------------------------------------------
(* Repeated invocation: the finished notebook is run again from the top in *)
(* a fresh kernel given the same seed.                                     *)

Rerun ==
  /\ pc = "done"
  /\ hist.runs < MaxRuns
  /\ seed' = seed
  /\ pc' = "instantiate_mlp"
  /\ mx_rng' = seed
  /\ np_rng' \in 0..(NumEntropy - 1)
  /\ net' = NoNet
  /\ params' = <<>>
  /\ cell_out' = NoArray
  /\ rescale' = 1
  /\ e' = -1
  /\ it' = NoIter
  /\ i' = 0
  /\ data' = NoArray /\ label' = NoArray /\ output' = NoArray /\ loss' = NoArray
  /\ grad' = <<>>
  /\ cumulative_loss' = 0
  /\ ev' = NoEval
  /\ test_accuracy' = NaN /\ train_accuracy' = NaN
  /\ stdout' = <<>>
  /\ hist' = [NoHist EXCEPT !.runs = hist.runs + 1, !.initSeen = hist.initSeen,
                            !.entropy = hist.entropy \cup {np_rng'}]
  /\ UNCHANGED eqvars

NextRerun == Next \/ Rerun

SpecRerun == Init /\ [][NextRerun]_vars

----------------------------------------------------------------------------
(* The three ways of composing the layers, applied to the same parameters  *)
(* and the same input batch.                                               *)

EqParams == [1..3 -> [weight : (-EqWMax)..EqWMax, bias : 0..EqBMax]]

EqInputs ==
  {[shape |-> <<Len(r), 784>>, rows |-> r] :
     r \in UNION {[1..n -> 0..EqXMax] : n \in 1..EqMaxBatch}}

EqInit ==
  /\ seed = 0
  /\ ProgStart("off")
  /\ mx_rng = 0
  /\ np_rng = 0
  /\ hist = NoHist
  /\ eq_pc = "mlp"
  /\ eq_params \in EqParams
  /\ eq_x \in EqInputs
  /\ eq_out = <<>>

EqResult(r) == [out |-> r.out, ops |-> r.ops, layers |-> r.layers]

(* The first MLP class called on the batch. *)
RunMLP ==
  /\ eq_pc = "mlp"
  /\ eq_out' = Append(eq_out, EqResult(Forward(MLP_init, eq_params, eq_x)))
  /\ eq_pc' = "mlp2"
  /\ UNCHANGED <<progvars, seed, hist, eq_params, eq_x>>

(* The second MLP class called on the batch. *)
RunMLP2 ==
  /\ eq_pc = "mlp2"
  /\ eq_out' = Append(eq_out, EqResult(Forward(MLP2_init, eq_params, eq_x)))
  /\ eq_pc' = "sequential"
  /\ UNCHANGED <<progvars, seed, hist, eq_params, eq_x>>

(* The Sequential stack called on the batch. *)
RunSequential ==
  /\ eq_pc = "sequential"
  /\ eq_out' = Append(eq_out, EqResult(Forward(Sequential_init, eq_params, eq_x)))
  /\ eq_pc' = "compared"
  /\ UNCHANGED <<progvars, seed, hist, eq_params, eq_x>>

EqNext == RunMLP \/ RunMLP2 \/ RunSequential

SpecNet == EqInit /\ [][EqNext]_vars

----------------------------------------------------------------------------
(* Properties *)

IsPerm(s, n) == Len(s) = n /\ {s[k] : k \in 1..Len(s)} = 1..n

FullTrace == <<"forward", "loss", "backward", "step">>

EvalPoints == {"eval_test", "eval_loop_test", "eval_train", "eval_loop_train"}

LoopPoints == {"for_epoch", "for_batch", "forward", "loss", "backward", "step",
               "accumulate", "print", "done"} \cup EvalPoints

(* Scores of shape (n, 10) for an input of shape (n, 784), n >= 1. *)
ScoresFor(x, out) ==
  /\ x.shape = <<Len(x.rows), 784>>
  /\ Len(x.rows) >= 1
  /\ out.shape = <<Len(x.rows), 10>>
  /\ Len(out.rows) = Len(x.rows)

(* The widths a called network has fixed: 784 -> 64 -> 64 -> 10, each      *)
(* layer's input width the output width of the one before.                 *)
WidthsChain(n) ==
  /\ [k \in 1..Len(n.layers) |-> n.layers[k].units] = <<64, 64, 10>>
  /\ \A k \in 1..Len(n.layers) :
       n.layers[k].in_units = IF k = 1 THEN 784 ELSE n.layers[k - 1].units

(* C1: every call of the model, the MLP classes on the demonstration input *)
(* and the Sequential stack on every training and evaluation batch, maps   *)
(* an input of shape (n, 784), n >= 1, to scores of shape (n, 10), and the *)
(* called network's widths chain 784 -> 64 -> 64 -> 10.                    *)
C1_OutputShape ==
  /\ pc \in {"mlp2_cell", "sequential"} => ScoresFor(data, cell_out) /\ WidthsChain(net)
  /\ pc \in {"loss", "backward", "step", "accumulate"} =>
       ScoresFor(data, output) /\ WidthsChain(net)
  /\ pc \in {"eval_loop_test", "eval_loop_train"} /\ ev.it.pos > 0 =>
       ScoresFor(ev.data, ev.output) /\ WidthsChain(net)

C1_Witness ==
  /\ pc = "loss"
  /\ net.kind = "Sequential"
  /\ Len(data.rows) = 1
  /\ batch_size > 1
  /\ output.shape = <<1, 10>>
  /\ it.pos > 1

(* C2: every training batch goes through forward, loss, backward and one   *)
(* optimizer step, in that order; the step is scaled by the number of      *)
(* samples in that batch; no batch gets zero or two steps.                 *)
C2_BatchSteps ==
  /\ pc = "forward" => hist.trace = <<>>
  /\ pc = "loss" => hist.trace = SubSeq(FullTrace, 1, 1)
  /\ pc = "backward" => hist.trace = SubSeq(FullTrace, 1, 2)
  /\ pc = "step" => hist.trace = SubSeq(FullTrace, 1, 3)
  /\ pc = "accumulate" =>
       /\ hist.trace = FullTrace
       /\ rescale = Len(hist.batch)
       /\ Len(data.rows) = Len(hist.batch)
  /\ pc = "for_batch" /\ it.pos > 0 => hist.trace = FullTrace
  /\ hist.nsteps = hist.nfetch
                   - (IF pc \in {"forward", "loss", "backward", "step"} THEN 1 ELSE 0)
  /\ \A k \in 1..Len(hist.stepargs) : hist.stepargs[k][1] = hist.stepargs[k][2]
  /\ pc \in EvalPoints \cup {"print"} =>
       /\ IsPerm(hist.trained, num_examples)
       /\ Len(hist.stepargs) = NumBatches(it)
       /\ hist.nsteps = (e + 1) * NumBatches(it)

C2_Witness ==
  /\ pc = "accumulate"
  /\ e = epochs - 1
  /\ Len(hist.batch) < batch_size
  /\ rescale = Len(hist.batch)
  /\ ~HasNext(it)

(* C3: the evaluations of an epoch start only after the optimizer step of  *)
(* the epoch's last training batch; each visits every sample of its set    *)
(* exactly once; both read the parameters that step left.                  *)
C3_Evaluation ==
  /\ pc \in EvalPoints \cup {"print"} =>
       /\ ~HasNext(it)
       /\ hist.trace = FullTrace
       /\ IsPerm(hist.trained, num_examples)
       /\ params = hist.stepped
       /\ hist.used \subseteq {hist.stepped}
  /\ pc \in {"eval_train", "eval_loop_train", "print"} =>
       /\ IsPerm(hist.visits.test, TestSetSize)
       /\ hist.used = {hist.stepped}
  /\ pc = "print" => IsPerm(hist.visits.train, num_examples)
  /\ pc \in {"eval_loop_test", "eval_loop_train"} =>
       ev.it.loader.name = (IF pc = "eval_loop_test" THEN "test" ELSE "train")

C3_Witness ==
  /\ pc = "print"
  /\ e >= 1
  /\ hist.visits.train # Identity(num_examples)
  /\ hist.visits.train # hist.trained
  /\ hist.used = {params}

LastReport == Reports[Len(Reports)]

(* What holds of the report lines at every moment of the run. *)
ReportsInOrder ==
  /\ Len(Reports) = (IF pc \in {"for_epoch", "done"} THEN e + 1 ELSE Max(e, 0))
  /\ \A k \in 1..Len(Reports) : Reports[k].Epoch = k - 1
  /\ pc \in {"for_epoch", "done"} /\ e >= 0 =>
       /\ IsPerm(hist.trained, num_examples)
       /\ IsPerm(hist.visits.train, num_examples)
       /\ IsPerm(hist.visits.test, TestSetSize)
       /\ LastReport.Train_acc = hist.truth.train
       /\ LastReport.Test_acc = hist.truth.test
  /\ pc = "done" => e = 9 /\ Len(Reports) = 10

(* How far the run is from its end: epochs left, then the phase within    *)
(* the epoch, then batches left in the phase, then statements left in the  *)
(* batch.  The cells before the loop count as phases of an epoch of their  *)
(* own.                                                                    *)
PhaseRank ==
  CASE pc = "instantiate_mlp" -> 12 [] pc = "demo_forward" -> 11
    [] pc = "mlp2_cell" -> 10 [] pc = "sequential" -> 9 [] pc = "initialize" -> 8
    [] pc = "trainer" -> 7
    [] pc \in {"for_batch", "forward", "loss", "backward", "step", "accumulate"} -> 6
    [] pc = "eval_test" -> 5 [] pc = "eval_loop_test" -> 4
    [] pc = "eval_train" -> 3 [] pc = "eval_loop_train" -> 2
    [] pc = "print" -> 1
    [] OTHER -> 0

StatementRank ==
  CASE pc = "forward" -> 5 [] pc = "loss" -> 4 [] pc = "backward" -> 3
    [] pc = "step" -> 2 [] pc = "accumulate" -> 1
    [] pc = "for_epoch" -> 1
    [] OTHER -> 0

Remaining ==
  <<epochs - e,
    PhaseRank,
    IF pc \in {"eval_loop_test", "eval_loop_train"}
      THEN NumBatches(ev.it) - ev.it.pos
      ELSE IF PhaseRank = 6 THEN NumBatches(it) - it.pos ELSE 0,
    StatementRank>>

LexLess(a, b) ==
  \E k \in 1..Len(a) : a[k] < b[k] /\ \A j \in 1..(k - 1) : a[j] = b[j]

(* No call of the network is refused for its input's shape, so every      *)
(* statement before the end has a successor.                               *)
NoShapeFailure ==
  /\ pc = "demo_forward" =>
       Forward(net, params, [shape |-> <<1, 784>>, rows |-> <<1>>]).ok
  /\ pc = "mlp2_cell" => Forward(MLP2_init, Initialize(MLP2_init, mx_rng).params, data).ok
  /\ pc = "forward" => Forward(net, params, data).ok
  /\ pc \in {"eval_loop_test", "eval_loop_train"} /\ HasNext(ev.it) =>
       EvaluateBatch(ev, EvalParams).ok
  /\ pc \in LoopPoints \cup {"instantiate_mlp", "demo_forward", "mlp2_cell",
                              "sequential", "initialize", "trainer"}

(* C4: the run ends, after exactly 10 epochs: every statement brings it    *)
(* closer to the end and none before the end is refused.  It prints one    *)
(* report line per epoch, for epochs 0..9 in order, each after the epoch's *)
(* batches and evaluations, with the training-set accuracy as Train_acc    *)
(* and the test-set accuracy as Test_acc.                                  *)
C4_Reports ==
  /\ [](ReportsInOrder /\ NoShapeFailure)
  /\ [][LexLess(Remaining', Remaining)]_vars

C4_Witness ==
  /\ pc = "done"
  /\ Len(Reports) = epochs
  /\ LastReport.Epoch = 9
  /\ LastReport.Train_acc # LastReport.Test_acc
  /\ LastReport.Train_acc = train_accuracy

(* C5: the loss of a report line is the sum of the per-sample losses of    *)
(* the batches of that epoch divided by the number of samples of that      *)
(* epoch; the accumulator holds the losses of the current epoch only.      *)
C5_AverageLoss ==
  /\ pc \in LoopPoints \ {"for_epoch", "done"} =>
       cumulative_loss = SumSeq(hist.losses)
                         - (IF pc \in {"backward", "step", "accumulate"}
                              THEN SumSeq(loss.rows) ELSE 0)
  /\ pc \in {"for_epoch", "done"} /\ e >= 0 =>
       /\ Len(hist.losses) = Len(hist.trained)
       /\ LastReport.Epoch = e
       /\ LastReport.Loss = Div(SumSeq(hist.losses), Len(hist.losses))

C5_Witness ==
  /\ pc = "for_epoch"
  /\ e >= 1
  /\ LastReport.Loss[1] > 0
  /\ Reports[Len(Reports) - 1].Loss[1] > 0
  /\ Reports[Len(Reports) - 1].Loss # LastReport.Loss

ExpectedOps ==
  <<[op |-> "affine", units |-> 64], ReluOp, [op |-> "affine", units |-> 64], ReluOp,
    [op |-> "affine", units |-> 10]>>

(* C6: on the same parameters and the same input batch the first MLP       *)
(* class, the second MLP class and the Sequential stack apply affine-64,   *)
(* relu, affine-64, relu, affine-10 in this order and return the same      *)
(* scores.                                                                 *)
C6_Equivalent ==
  eq_pc = "compared" =>
    /\ \A k \in 1..3 : eq_out[k].ops = ExpectedOps
    /\ eq_out[1].out = eq_out[2].out
    /\ eq_out[2].out = eq_out[3].out
    /\ eq_out[1].out.shape = <<Len(eq_x.rows), 10>>

C6_Witness ==
  /\ eq_pc = "compared"
  /\ Len(eq_x.rows) = 2
  /\ eq_x.rows[1] # eq_x.rows[2]
  /\ eq_params[1].weight * eq_x.rows[1] + eq_params[1].bias > 0
  /\ eq_params[2].weight * (eq_params[1].weight * eq_x.rows[1] + eq_params[1].bias)
       + eq_params[2].bias < 0
  /\ eq_params[3].weight # 0
  /\ eq_params[3].bias # 0
  /\ eq_out[1].out.rows[1] # 0
  /\ eq_out[1].out = eq_out[3].out

InUnit(v) == v[2] > 0 /\ 0 <= v[1] /\ v[1] <= v[2]

C10_FailureHalts ==
  /\ [](hist.failed.on =>
          /\ pc = "halted"
          /\ hist.nsteps = hist.failed.nsteps
          /\ hist.nfetch = hist.failed.nfetch
          /\ Len(Reports) = hist.failed.e
          /\ \A k \in 1..Len(Reports) : Reports[k].Epoch < hist.failed.e)
  /\ [][hist.failed.on => UNCHANGED <<pc, params, stdout, it, e, ev>>]_vars

C10_Witness ==
  /\ hist.failed.on
  /\ hist.failed.at = "step"
  /\ hist.failed.e >= 1
  /\ pc = "halted"
  /\ HasNext(it)
  /\ hist.nsteps < hist.nfetch

====
